---- MODULE Spec2Model ----
(***************************************************************************)
(* A model of opencode-sync: the Syncer (internal/sync/sync.go), the age   *)
(* encryption provider, the built-in git repository and the push / pull /  *)
(* sync / init commands of the CLI (internal/cli/commands.go).             *)
(*                                                                         *)
(* File names are TLA+ strings; Chars gives the characters of each name,   *)
(* so that the exclusion matcher, path prefixes and path segments are      *)
(* computed character by character as the Go code computes them.          *)
(***************************************************************************)
EXTENDS Integers, Sequences, FiniteSets, TLC

(***************************************************************************)
(* Bounds of the model.                                                    *)
(***************************************************************************)
\* how many environment steps (user edits, remote pushes by another
\* machine, configuration edits) one behaviour takes
MaxEnv == 1
MaxEdits == 1

(***************************************************************************)
(* Names and their characters.                                             *)
(***************************************************************************)
Chars(s) ==
  CASE s = "opencode.json" -> <<"o","p","e","n","c","o","d","e",".","j","s","o","n">>
  [] s = "opencode.jsonc" -> <<"o","p","e","n","c","o","d","e",".","j","s","o","n","c">>
  [] s = "AGENTS.md" -> <<"A","G","E","N","T","S",".","m","d">>
  [] s = "agent" -> <<"a","g","e","n","t">>
  [] s = "command" -> <<"c","o","m","m","a","n","d">>
  [] s = "skill" -> <<"s","k","i","l","l">>
  [] s = "mode" -> <<"m","o","d","e">>
  [] s = "themes" -> <<"t","h","e","m","e","s">>
  [] s = "plugin" -> <<"p","l","u","g","i","n">>
  [] s = "agent/b.log" -> <<"a","g","e","n","t","/","b",".","l","o","g">>
  [] s = "plugin/.git/x" -> <<"p","l","u","g","i","n","/",".","g","i","t","/","x">>
  [] s = "auth.json.age" -> <<"a","u","t","h",".","j","s","o","n",".","a","g","e">>
  [] s = "mcp-auth.json.age" -> <<"m","c","p","-","a","u","t","h",".","j","s","o","n",".","a","g","e">>
  [] s = "claude-skills" -> <<"c","l","a","u","d","e","-","s","k","i","l","l","s">>
  [] s = ".git" -> <<".","g","i","t">>
  [] s = ".git/HEAD" -> <<".","g","i","t","/","H","E","A","D">>
  [] s = "node_modules" -> <<"n","o","d","e","_","m","o","d","u","l","e","s">>
  [] s = "*.log" -> <<"*",".","l","o","g">>
  [] s = "bun.lock" -> <<"b","u","n",".","l","o","c","k">>
  [] s = "auth" -> <<"a","u","t","h">>
  [] s = "log" -> <<"l","o","g">>
  [] s = "login.json" -> <<"l","o","g","i","n",".","j","s","o","n">>
  [] s = "claude-skills/s.md" -> <<"c","l","a","u","d","e","-","s","k","i","l","l","s","/","s",".","m","d">>

\* the path separator (filepath.Separator on unix)
Sep == "/"

\* strings.HasPrefix
HasPrefix(s, pre) ==
  /\ Len(pre) <= Len(s)
  /\ \A i \in 1..Len(pre) : s[i] = pre[i]

\* strings.Contains
Contains(s, sub) ==
  \E i \in 0..(Len(s) - Len(sub)) : \A j \in 1..Len(sub) : s[i + j] = sub[j]

\* filepath.Base of a relative file path: what follows the last separator
RECURSIVE Base(_)
Base(s) ==
  IF \E i \in 1..Len(s) : s[i] = Sep
    THEN Base(Tail(s))
    ELSE s

\* the directory segments of a relative file path (its final segment left out)
RECURSIVE DirSegments(_, _)
DirSegments(s, cur) ==
  IF s = <<>> THEN <<>>
  ELSE IF Head(s) = Sep THEN <<cur>> \o DirSegments(Tail(s), <<>>)
  ELSE DirSegments(Tail(s), Append(cur, Head(s)))

\* filepath.Match for patterns made of literals, '*' and '?' (no name below
\* holds a separator, so '*' and '?' match every character of it)
RECURSIVE Match(_, _)
Match(pat, name) ==
  IF pat = <<>> THEN name = <<>>
  ELSE IF Head(pat) = "*"
    THEN \/ Match(Tail(pat), name)
         \/ (name # <<>> /\ Match(pat, Tail(name)))
  ELSE IF name = <<>> THEN FALSE
  ELSE /\ (Head(pat) = "?" \/ Head(pat) = Head(name))
       /\ Match(Tail(pat), Tail(name))

(***************************************************************************)
(* The configuration (config.Config) and the exclusion lists it may hold.  *)
(***************************************************************************)
\* config.Default's exclusion list
DefaultExclude == <<"node_modules", "*.log", "bun.lock">>

\* the exclusion lists of the model: none, the default, one whose pattern
\* is a substring of both artifact names, and one whose pattern is a
\* substring of names that are no log files
ExcludeLists == {<<>>, DefaultExclude, <<"auth">>, <<"log">>}

Policy(enc, auth, mcp, exclude) ==
  [encEnabled |-> enc, includeAuth |-> auth, includeMcpAuth |-> mcp,
   exclude |-> exclude]

\* the configuration files of the model
Configs ==
  {Policy(TRUE, FALSE, FALSE, DefaultExclude),
   Policy(TRUE, TRUE, FALSE, DefaultExclude),
   Policy(TRUE, FALSE, TRUE, DefaultExclude),
   Policy(TRUE, TRUE, FALSE, <<"auth">>),
   Policy(FALSE, TRUE, FALSE, DefaultExclude),
   Policy(FALSE, FALSE, TRUE, DefaultExclude),
   Policy(FALSE, FALSE, FALSE, <<>>)}

\* Syncer.shouldExclude with the glob test only
shouldExcludeGlob(exclude, path) ==
  \E i \in 1..Len(exclude) : Match(Chars(exclude[i]), Base(Chars(path)))

\* Syncer.shouldExclude
shouldExclude(exclude, path) ==
  \E i \in 1..Len(exclude) :
    \/ Match(Chars(exclude[i]), Base(Chars(path)))
    \/ Contains(Chars(path), Chars(exclude[i]))

(***************************************************************************)
(* Files.  A file is its content and its permission bits.  A content is    *)
(* plain bytes (body) or an age ciphertext of a body under a key with the  *)
(* randomness (nonce) age drew for it; an age ciphertext begins with the   *)
(* age header and is never the bytes of its plaintext.                     *)
(***************************************************************************)
Keys == {"k1", "k2"}
Nonces == {"r1", "r2"}
NoKey == "none"

NoFile == [kind |-> "absent", key |-> "-", nonce |-> "-", body |-> "-", mode |-> "-"]

PlainFile(body, mode) ==
  [kind |-> "plain", key |-> "-", nonce |-> "-", body |-> body, mode |-> mode]

AgeFile(key, nonce, body, mode) ==
  [kind |-> "age", key |-> key, nonce |-> nonce, body |-> body, mode |-> mode]

Exists(f) == f.kind # "absent"

\* the bytes of a file, without its permission bits
Bytes(f) == [kind |-> f.kind, key |-> f.key, nonce |-> f.nonce, body |-> f.body]

SameBytes(f, g) == Bytes(f) = Bytes(g)

(***************************************************************************)
(* Paths (paths.Paths).  The live tree has three roots: OpenCodeConfigDir  *)
(* ("cfg"), OpenCodeDataDir ("data") and ClaudeSkillsDir ("claude"); the   *)
(* mirror is SyncRepoDir.  The key file lives in ConfigDir, the            *)
(* opencode-sync directory, which is none of them.                         *)
(***************************************************************************)
\* Paths.SyncableOpenCodePaths, relative to OpenCodeConfigDir
SyncableOpenCodePaths ==
  <<"opencode.json", "opencode.jsonc", "AGENTS.md", "agent", "command",
    "skill", "mode", "themes", "plugin">>

\* the files of the model under the mirror root, in filepath.Walk's
\* (lexical) order
MirrorFiles ==
  <<".git/HEAD", "agent/b.log", "auth.json.age", "claude-skills/s.md", "mcp-auth.json.age",
    "opencode.json", "plugin/.git/x">>

MirrorNames == {MirrorFiles[i] : i \in 1..Len(MirrorFiles)}

\* Paths.OpenCodeAuthFile and Paths.OpenCodeMcpAuthFile
OpenCodeAuthFile == <<"data", "auth.json">>
OpenCodeMcpAuthFile == <<"data", "mcp-auth.json">>

\* Paths.KeyFile: age.key in ConfigDir ("sync")
KeyFile == <<"sync", "age.key">>

\* every place of the file system outside the mirror a file of the model
\* can be at: the live tree and the key file
LivePaths ==
  {<<"cfg", n>> : n \in MirrorNames}
    \cup {OpenCodeAuthFile, OpenCodeMcpAuthFile, <<"claude", "s.md">>, KeyFile}

\* crypto.SaveKeyToFile: the key file that holds a private key
SaveKeyToFile(key) == IF key = NoKey THEN NoFile ELSE PlainFile(key, "0600")

EmptyMirror == [n \in MirrorNames |-> NoFile]
EmptyLive == [p \in LivePaths |-> NoFile]

\* the two sensitive categories
Categories == {"auth", "mcp"}
Include(cfg, cat) == IF cat = "auth" THEN cfg.includeAuth ELSE cfg.includeMcpAuth
\* the source paths of the categories with the key file as the first
PlaintextKeyFile(cat) == IF cat = "auth" THEN KeyFile ELSE OpenCodeMcpAuthFile

Plaintext(cat) == IF cat = "auth" THEN OpenCodeAuthFile ELSE OpenCodeMcpAuthFile
Artifact(cat) == IF cat = "auth" THEN "auth.json.age" ELSE "mcp-auth.json.age"

\* path is root itself or lies under the directory root
Under(root, path) ==
  \/ path = root
  \/ HasPrefix(Chars(path), Chars(root) \o <<Sep>>)

\* the files of the model under OpenCodeConfigDir that CopyToRepo's loop
\* visits, in its order: root by root, each directory in ReadDir's order
RECURSIVE Traversal(_)
Traversal(roots) ==
  IF roots = <<>> THEN <<>>
  ELSE SelectSeq(MirrorFiles, LAMBDA n : Under(Head(roots), n))
         \o Traversal(Tail(roots))

ExportFiles == Traversal(SyncableOpenCodePaths)
CatalogFiles == {ExportFiles[i] : i \in 1..Len(ExportFiles)}

(***************************************************************************)
(* The encryption provider (crypto.AgeEncryption).  A Syncer's encryption  *)
(* field is NoKey (nil) or the provider made from a private key.           *)
(***************************************************************************)
\* AgeEncryption.Encrypt that returns its input
EncryptIdentity(key, nonce, f) == Bytes(f)

\* AgeEncryption.Encrypt: the bytes age writes for a plaintext
Encrypt(key, nonce, f) ==
  [kind |-> "age", key |-> key, nonce |-> nonce, body |-> f.body]

\* AgeEncryption.Decrypt fails on bytes that are no age file or are
\* encrypted to another recipient
CanDecrypt(key, f) == f.kind = "age" /\ f.key = key

Decrypt(key, f) == [kind |-> "plain", key |-> "-", nonce |-> "-", body |-> f.body]

\* os.WriteFile(dst, bytes, 0600): the permission applies to a file it creates
WriteFile(old, bytes, perm) ==
  [kind |-> bytes.kind, key |-> bytes.key, nonce |-> bytes.nonce,
   body |-> bytes.body, mode |-> IF Exists(old) THEN old.mode ELSE perm]

\* AgeEncryption.EncryptFile: the destination file after it
EncryptFile(key, nonce, src, dst) == WriteFile(dst, Encrypt(key, nonce, src), "0600")

\* AgeEncryption.DecryptFile: the destination file after it
DecryptFile(key, src, dst) == WriteFile(dst, Decrypt(key, src), "0600")

(***************************************************************************)
(* Syncer.copyFile and Syncer.CopyToRepo.                                  *)
(***************************************************************************)
\* Syncer.copyFile without the final Chmod: a created file gets 0644
copyFileNoChmod(src, dst) ==
  [src EXCEPT !.mode = IF Exists(dst) THEN dst.mode ELSE "0644"]

\* Syncer.copyFile: the destination is rewritten with the source's bytes
\* and then given the source's mode
copyFile(src, dst) == src

\* the loop of CopyToRepo that goes on after a copy that failed and
\* returns the error at its end
RECURSIVE copyPathsGoOn(_, _, _, _)
copyPathsGoOn(files, live, mirror, unreadable) ==
  IF files = <<>> THEN [mirror |-> mirror, err |-> "nil"]
  ELSE LET n == Head(files)
           src == live[<<"cfg", n>>]
           rest == copyPathsGoOn(Tail(files), live,
                     IF Exists(src) /\ n \notin unreadable
                       THEN [mirror EXCEPT ![n] = copyFile(src, mirror[n])]
                       ELSE mirror,
                     unreadable)
       IN IF Exists(src) /\ n \in unreadable
            THEN [rest EXCEPT !.err = "copy"]
            ELSE rest

\* the loop of CopyToRepo over the syncable paths (copyDir and copyFile);
\* os.Open fails on the files of unreadable, and the loop returns at the
\* first copy that fails
RECURSIVE copyPaths(_, _, _, _)
copyPaths(files, live, mirror, unreadable) ==
  IF files = <<>> THEN [mirror |-> mirror, err |-> "nil"]
  ELSE LET n == Head(files)
           src == live[<<"cfg", n>>]
       IN IF ~Exists(src) THEN copyPaths(Tail(files), live, mirror, unreadable)
          ELSE IF n \in unreadable THEN [mirror |-> mirror, err |-> "copy"]
          ELSE copyPaths(Tail(files), live,
                         [mirror EXCEPT ![n] = copyFile(src, mirror[n])],
                         unreadable)

\* the sensitive-category step of CopyToRepo that encrypts with no provider
\* check: with none set it copies the plaintext
exportSensitiveNoGate(cat, cfg, enc, nonce, live, mirror) ==
  IF ~Include(cfg, cat) \/ ~Exists(live[Plaintext(cat)])
    THEN [mirror |-> mirror, err |-> "nil"]
    ELSE [mirror |-> [mirror EXCEPT ![Artifact(cat)] =
                        IF enc = NoKey
                          THEN WriteFile(mirror[Artifact(cat)], Bytes(live[Plaintext(cat)]), "0600")
                          ELSE EncryptFile(enc, nonce, live[Plaintext(cat)], mirror[Artifact(cat)])],
          err |-> "nil"]

\* the sensitive-category step of CopyToRepo that fails when the plaintext
\* file does not exist
exportSensitiveRequired(cat, cfg, enc, nonce, live, mirror) ==
  IF ~Include(cfg, cat) THEN [mirror |-> mirror, err |-> "nil"]
  ELSE IF enc = NoKey THEN [mirror |-> mirror, err |-> "requiresEncryption"]
  ELSE IF ~Exists(live[Plaintext(cat)]) THEN [mirror |-> mirror, err |-> "encrypt"]
  ELSE [mirror |-> [mirror EXCEPT ![Artifact(cat)] =
                      EncryptFile(enc, nonce, live[Plaintext(cat)], mirror[Artifact(cat)])],
        err |-> "nil"]

\* the sensitive-category step of CopyToRepo ("Handle auth.json if enabled")
exportSensitive(cat, cfg, enc, nonce, live, mirror) ==
  IF ~Include(cfg, cat) THEN [mirror |-> mirror, err |-> "nil"]
  ELSE IF enc = NoKey THEN [mirror |-> mirror, err |-> "requiresEncryption"]
  ELSE IF ~Exists(live[Plaintext(cat)]) THEN [mirror |-> mirror, err |-> "nil"]
  ELSE [mirror |-> [mirror EXCEPT ![Artifact(cat)] =
                      EncryptFile(enc, nonce, live[Plaintext(cat)], mirror[Artifact(cat)])],
        err |-> "nil"]

\* an export that empties the mirror's working tree before it copies, so
\* that the mirror holds what the live tree holds and nothing else
CopyToRepoMirrored(cfg, enc, nonceA, nonceM, live, mirror, unreadable) ==
  LET emptied == [n \in MirrorNames |-> IF n = ".git/HEAD" THEN mirror[n] ELSE NoFile]
      copied == copyPaths(ExportFiles, live, emptied, unreadable)
      a == exportSensitive("auth", cfg, enc, nonceA, live, copied.mirror)
  IN IF copied.err # "nil" THEN copied
     ELSE IF a.err # "nil" THEN a
     ELSE exportSensitive("mcp", cfg, enc, nonceM, live, a.mirror)

\* Syncer.CopyToRepo on a live tree of which os.Open fails on the files of
\* unreadable: the mirror after it and the error it returns
CopyToRepoOn(cfg, enc, nonceA, nonceM, live, mirror, unreadable) ==
  LET copied == copyPaths(ExportFiles, live, mirror, unreadable)
      a == exportSensitive("auth", cfg, enc, nonceA, live, copied.mirror)
  IN IF copied.err # "nil" THEN copied
     ELSE IF a.err # "nil" THEN a
     ELSE exportSensitive("mcp", cfg, enc, nonceM, live, a.mirror)

\* Syncer.CopyToRepo on a live tree every file of which can be read
CopyToRepo(cfg, enc, nonceA, nonceM, live, mirror) ==
  CopyToRepoOn(cfg, enc, nonceA, nonceM, live, mirror, {})

(***************************************************************************)
(* Syncer.CopyFromRepo.                                                    *)
(***************************************************************************)
\* a walk that enters every directory
InGitDirNever(path) == FALSE

\* the walk skips every directory named .git with all that is under it
InGitDir(path) ==
  \E i \in 1..Len(DirSegments(Chars(path), <<>>)) :
    DirSegments(Chars(path), <<>>)[i] = Chars(".git")

\* InGitDir and shouldExclude of every file of the model, computed once
GitDirFiles == {n \in MirrorNames : InGitDir(n)}
ExcludedFiles == [e \in ExcludeLists |-> {n \in MirrorNames : shouldExclude(e, n)}]

\* the name of a path under claude-skills relative to it
SkillsRel(path) ==
  CASE path = "claude-skills/s.md" -> "s.md"
    [] OTHER -> "."

\* the files of the model that lie under the mirror's claude-skills
SkillsFiles ==
  {n \in MirrorNames :
     HasPrefix(Chars(n), Chars("claude-skills") \o <<Sep>>) \/ n = "claude-skills"}

\* "Determine destination" with no remapped root
DestinationConfigDir(path) == <<"cfg", path>>

\* "Determine destination"
Destination(path) ==
  IF path \in SkillsFiles
    THEN <<"claude", SkillsRel(path)>>
    ELSE <<"cfg", path>>

\* the category whose artifact a mirror path is routed to decrypt as, or "-"
RoutedNoFlag(cfg, path) ==
  IF path = "auth.json.age" THEN "auth"
  ELSE IF path = "mcp-auth.json.age" THEN "mcp"
  ELSE "-"

Routed(cfg, path) ==
  IF path = "auth.json.age" /\ cfg.includeAuth THEN "auth"
  ELSE IF path = "mcp-auth.json.age" /\ cfg.includeMcpAuth THEN "mcp"
  ELSE "-"

\* whether the walk's callback returns nil at once for a file
SkippedNoExclude(cfg, path) == path \in GitDirFiles

Skipped(cfg, path) ==
  \/ path \in GitDirFiles
  \/ path \in ExcludedFiles[cfg.exclude]
  \/ Destination(path) = <<"claude", ".">>

\* the walk's callback that passes over an artifact when no encryption
\* provider is set
importFileNoProvider(cfg, enc, path, live, mirror) ==
  IF Skipped(cfg, path) THEN [live |-> live, err |-> "nil"]
  ELSE IF Routed(cfg, path) # "-" THEN
    LET dst == Plaintext(Routed(cfg, path)) IN
    IF enc = NoKey THEN [live |-> live, err |-> "nil"]
    ELSE IF ~CanDecrypt(enc, mirror[path]) THEN [live |-> live, err |-> "decrypt"]
    ELSE [live |-> [live EXCEPT ![dst] = DecryptFile(enc, mirror[path], live[dst])],
          err |-> "nil"]
  ELSE [live |-> [live EXCEPT ![Destination(path)] =
                    copyFile(mirror[path], live[Destination(path)])],
        err |-> "nil"]

\* the walk's callback on one file of the mirror
importFile(cfg, enc, path, live, mirror) ==
  IF Skipped(cfg, path) THEN [live |-> live, err |-> "nil"]
  ELSE IF Routed(cfg, path) # "-" THEN
    LET dst == Plaintext(Routed(cfg, path)) IN
    IF enc = NoKey THEN [live |-> live, err |-> "notEnabled"]
    ELSE IF ~CanDecrypt(enc, mirror[path]) THEN [live |-> live, err |-> "decrypt"]
    ELSE [live |-> [live EXCEPT ![dst] = DecryptFile(enc, mirror[path], live[dst])],
          err |-> "nil"]
  ELSE [live |-> [live EXCEPT ![Destination(path)] =
                    copyFile(mirror[path], live[Destination(path)])],
        err |-> "nil"]

\* filepath.Walk over the mirror: it stops at the first error
RECURSIVE walk(_, _, _, _, _)
walk(files, cfg, enc, live, mirror) ==
  IF files = <<>> THEN [live |-> live, err |-> "nil"]
  ELSE IF ~Exists(mirror[Head(files)]) THEN walk(Tail(files), cfg, enc, live, mirror)
  ELSE LET r == importFile(cfg, enc, Head(files), live, mirror)
       IN IF r.err # "nil" THEN r
          ELSE walk(Tail(files), cfg, enc, r.live, mirror)

\* Syncer.CopyFromRepo: the live tree after it and the error it returns
CopyFromRepo(cfg, enc, live, mirror) == walk(MirrorFiles, cfg, enc, live, mirror)

(***************************************************************************)
(* The built-in git repository (git.BuiltinGit) on the mirror.  head is    *)
(* the tree of the local HEAD commit and remote the tree of the remote     *)
(* branch; ahead says that HEAD holds commits the remote lacks, behind     *)
(* that the remote holds commits HEAD lacks.                               *)
(***************************************************************************)
\* the files of the model in the repository's own directory, .git under
\* the mirror root
RepoFiles == {".git/HEAD"}

\* BuiltinGit.Init (git.PlainInit): the mirror becomes a repository
PlainInit(w) ==
  [w EXCEPT !.repoReady = TRUE,
            !.mirror[".git/HEAD"] = PlainFile("ref", "0644")]

\* the tree git sees in a working tree: it stores the executable bit only
\* and never looks into a directory named .git
GitTree(tree) ==
  [n \in MirrorNames |->
     IF n \in GitDirFiles \/ ~Exists(tree[n]) THEN NoFile
     ELSE IF tree[n].mode = "0600" THEN [tree[n] EXCEPT !.mode = "0644"]
     ELSE tree[n]]

\* BuiltinGit.HasChanges: the status of the working tree is not clean
HasChanges(mirror, head) == GitTree(mirror) # head

\* a cleanliness test that looks at the files of HEAD only and takes a
\* working tree with untracked files for clean
IsCleanTracked(mirror, head) ==
  \A n \in MirrorNames : Exists(head[n]) => GitTree(mirror)[n] = head[n]

\* BuiltinGit.IsClean: the status of the working tree is clean
IsClean(mirror, head) == GitTree(mirror) = head

\* the working tree after a fast-forward checkout of a tree
Checkout(mirror, tree) ==
  [n \in MirrorNames |-> IF n \in GitDirFiles THEN mirror[n] ELSE tree[n]]

\* the files a merge of the remote branch into HEAD conflicts on
ConflictSet(w) == {n \in MirrorNames : w.head[n] # w.remote[n]}

\* BuiltinGit.Pull: the world after it, the error it returns ("nil",
\* "conflict" for a *ConflictError, "failed" for any other), the Files of
\* the ConflictError, the Go type of the error (kind) and what made the
\* operation fail (cause)
Pull(w, fault) ==
  IF fault \in {"pull", "auth"}
    THEN [w |-> w, err |-> "failed", files |-> {}, kind |-> "generic",
          cause |-> IF fault = "auth" THEN "auth" ELSE "transport"]
  ELSE IF ~w.behind
    THEN [w |-> w, err |-> "nil", files |-> {}, kind |-> "-", cause |-> "-"]
  ELSE IF ~w.ahead
    THEN [w |-> [w EXCEPT !.mirror = Checkout(w.mirror, w.remote),
                          !.head = w.remote, !.behind = FALSE],
          err |-> "nil", files |-> {}, kind |-> "-", cause |-> "-"]
  ELSE IF fault = "conflict" /\ ConflictSet(w) # {}
    THEN [w |-> w, err |-> "conflict", files |-> {}, kind |-> "ConflictError",
          cause |-> "conflict"]
  ELSE [w |-> w, err |-> "failed", files |-> {}, kind |-> "generic",
        cause |-> "rejected"]

\* BuiltinGit.Push: the world after it, the error it returns, the Go type
\* of the error (kind) and what made the operation fail (cause): the
\* transport, the credentials, or an update the remote rejects
Push(w, fault) ==
  IF fault \in {"push", "auth"}
    THEN [w |-> w, err |-> "failed", kind |-> "AuthError",
          cause |-> IF fault = "auth" THEN "auth" ELSE "transport"]
  ELSE IF ~w.ahead THEN [w |-> w, err |-> "nil", kind |-> "-", cause |-> "-"]
  ELSE IF w.behind
    THEN [w |-> w, err |-> "failed", kind |-> "AuthError", cause |-> "rejected"]
  ELSE [w |-> [w EXCEPT !.remote = w.head, !.ahead = FALSE],
        err |-> "nil", kind |-> "-", cause |-> "-"]

\* BuiltinGit.AddAll then BuiltinGit.Commit: HEAD becomes the working tree
Commit(w) == [w EXCEPT !.head = GitTree(w.mirror), !.ahead = TRUE]

(***************************************************************************)
(* The commands (internal/cli/commands.go).  Each takes the world w (live  *)
(* tree, mirror, repository), the configuration and key file it loads and  *)
(* the fault the environment injects, and gives the world after it with a  *)
(* report r of what it called and returned.                                *)
(***************************************************************************)
\* what a command reports: the error it returns, the collaborator calls it
\* made in order, the outcome of CopyToRepo / CopyFromRepo / Pull when
\* called ("-" when not), the files the merge conflicted on, and the file
\* list and count the returned error carries
NoReport ==
  [err |-> "nil", calls |-> <<>>, copyTo |-> "-", copyFrom |-> "-",
   pull |-> "-", conflictFiles |-> {}, errFiles |-> {}, errCount |-> 0,
   state |-> {}]

\* the git and file system failures a command can meet
PushFaults == {"none", "status", "stage", "commit", "push", "auth"}
PullFaults == {"none", "status", "pull", "conflict", "auth"}

\* the encryption initSyncer sets on the Syncer
Encryption(cfg, keyFile) == IF cfg.encEnabled THEN keyFile ELSE NoKey

\* initSyncer fails when the repository cannot be opened or encryption is
\* enabled and the key file is missing
initSyncerFails(w, cfg, keyFile) ==
  \/ ~w.repoReady
  \/ (cfg.encEnabled /\ keyFile = NoKey)

\* runPull's pre-check that never refuses
pullRefusedNever(mirror, head) == FALSE

\* runPull's pre-check: "Check for local changes before pulling"
pullRefused(mirror, head) == HasChanges(mirror, head)

\* runPull's handling of Pull's error that lets a conflict pass
pullErrorSwallow(p) ==
  IF p.err = "failed" THEN "pull" ELSE "nil"

\* runPull's handling of Pull's error: the error runPull returns
pullError(p) ==
  IF p.err = "conflict" THEN "conflict"
  ELSE IF p.err = "failed" THEN "pull"
  ELSE "nil"

\* runPush without the "No changes to push" return: it stages, commits and
\* pushes whatever HasChanges says
runPushAlways(w, cfg, keyFile, fault, nonceA, nonceM) ==
  IF initSyncerFails(w, cfg, keyFile)
    THEN [w |-> w, r |-> [NoReport EXCEPT !.err = "initSyncer"]]
  ELSE
    LET c == CopyToRepo(cfg, Encryption(cfg, keyFile), nonceA, nonceM, w.live, w.mirror)
        w1 == [w EXCEPT !.mirror = c.mirror]
        r1 == [NoReport EXCEPT !.calls = <<"CopyToRepo">>,
                               !.copyTo = IF c.err = "nil" THEN "ok" ELSE "err"]
        r5 == [r1 EXCEPT !.calls = <<"CopyToRepo", "HasChanges", "AddAll", "Commit", "Push">>]
        p == Push(Commit(w1), fault)
    IN IF c.err # "nil" THEN [w |-> w1, r |-> [r1 EXCEPT !.err = "copy"]]
       ELSE IF p.err # "nil" THEN [w |-> p.w, r |-> [r5 EXCEPT !.err = "push"]]
       ELSE [w |-> p.w, r |-> r5]

\* runPush
runPush(w, cfg, keyFile, fault, nonceA, nonceM) ==
  IF initSyncerFails(w, cfg, keyFile)
    THEN [w |-> w, r |-> [NoReport EXCEPT !.err = "initSyncer"]]
  ELSE
    LET c == CopyToRepo(cfg, Encryption(cfg, keyFile), nonceA, nonceM, w.live, w.mirror)
        w1 == [w EXCEPT !.mirror = c.mirror]
        r1 == [NoReport EXCEPT !.calls = <<"CopyToRepo">>,
                               !.copyTo = IF c.err = "nil" THEN "ok" ELSE "err"]
        r2 == [r1 EXCEPT !.calls = r1.calls \o <<"HasChanges">>]
        r3 == [r2 EXCEPT !.calls = r2.calls \o <<"AddAll">>]
        r4 == [r3 EXCEPT !.calls = r3.calls \o <<"Commit">>]
        r5 == [r4 EXCEPT !.calls = r4.calls \o <<"Push">>]
        w4 == Commit(w1)
        p == Push(w4, fault)
    IN IF c.err # "nil" THEN [w |-> w1, r |-> [r1 EXCEPT !.err = "copy"]]
       ELSE IF fault = "status" THEN [w |-> w1, r |-> [r2 EXCEPT !.err = "status"]]
       ELSE IF ~HasChanges(w1.mirror, w1.head) THEN [w |-> w1, r |-> r2]
       ELSE IF fault = "stage" THEN [w |-> w1, r |-> [r3 EXCEPT !.err = "stage"]]
       ELSE IF fault = "commit" THEN [w |-> w1, r |-> [r4 EXCEPT !.err = "commit"]]
       ELSE IF p.err # "nil" THEN [w |-> p.w, r |-> [r5 EXCEPT !.err = "push"]]
       ELSE [w |-> p.w, r |-> r5]

\* runPull
runPull(w, cfg, keyFile, fault) ==
  IF initSyncerFails(w, cfg, keyFile)
    THEN [w |-> w, r |-> [NoReport EXCEPT !.err = "initSyncer"]]
  ELSE
    LET r1 == [NoReport EXCEPT !.calls = <<"HasChanges">>]
        p == Pull(w, fault)
        r2 == [r1 EXCEPT !.calls = r1.calls \o <<"Pull">>, !.pull = p.err,
                         !.conflictFiles = IF p.err = "conflict" THEN ConflictSet(w) ELSE {}]
        i == CopyFromRepo(cfg, Encryption(cfg, keyFile), p.w.live, p.w.mirror)
        r3 == [r2 EXCEPT !.calls = r2.calls \o <<"CopyFromRepo">>,
                         !.copyFrom = IF i.err = "nil" THEN "ok" ELSE "err"]
    IN IF fault = "status" THEN [w |-> w, r |-> [r1 EXCEPT !.err = "status"]]
       ELSE IF pullRefused(w.mirror, w.head)
         THEN [w |-> w, r |-> [r1 EXCEPT !.err = "localChanges"]]
       ELSE IF pullError(p) = "conflict"
         THEN [w |-> p.w, r |-> [r2 EXCEPT !.err = "conflict", !.errFiles = {},
                                          !.errCount = Cardinality(p.files)]]
       ELSE IF pullError(p) # "nil" THEN [w |-> p.w, r |-> [r2 EXCEPT !.err = "pull"]]
       ELSE IF i.err # "nil"
         THEN [w |-> [p.w EXCEPT !.live = i.live], r |-> [r3 EXCEPT !.err = "copy"]]
       ELSE [w |-> [p.w EXCEPT !.live = i.live], r |-> r3]

\* runSync: runPull, then runPush unless the pull failed
runSync(w, cfg, keyFile, pullFault, pushFault, nonceA, nonceM) ==
  LET a == runPull(w, cfg, keyFile, pullFault)
      b == runPush(a.w, cfg, keyFile, pushFault, nonceA, nonceM)
  IN IF a.r.err # "nil" THEN a
     ELSE [w |-> b.w,
           r |-> [b.r EXCEPT !.calls = a.r.calls \o b.r.calls,
                             !.copyFrom = a.r.copyFrom, !.pull = a.r.pull]]

\* runInit
runInit(w, cfg, keyFile, fault, nonceA, nonceM) ==
  IF w.repoReady THEN [w |-> w, r |-> [NoReport EXCEPT !.err = "alreadyInit"]]
  ELSE
    LET w0 == PlainInit(w)
        c == CopyToRepo(cfg, Encryption(cfg, keyFile), nonceA, nonceM, w0.live, w0.mirror)
        w1 == [w0 EXCEPT !.mirror = c.mirror]
        r0 == [NoReport EXCEPT !.calls = <<"Init">>]
        r1 == [r0 EXCEPT !.calls = r0.calls \o <<"CopyToRepo">>,
                         !.copyTo = IF c.err = "nil" THEN "ok" ELSE "err"]
        r2 == [r1 EXCEPT !.calls = r1.calls \o <<"AddAll">>]
        r3 == [r2 EXCEPT !.calls = r2.calls \o <<"Commit">>]
    IN IF cfg.encEnabled /\ keyFile = NoKey
         THEN [w |-> w0, r |-> [r0 EXCEPT !.err = "keyNotFound"]]
       ELSE IF c.err # "nil" THEN [w |-> w1, r |-> [r1 EXCEPT !.err = "copy"]]
       ELSE IF fault = "stage" THEN [w |-> w1, r |-> [r2 EXCEPT !.err = "stage"]]
       ELSE IF fault = "commit" THEN [w |-> w1, r |-> [r3 EXCEPT !.err = "commit"]]
       ELSE [w |-> Commit(w1), r |-> r3]

(***************************************************************************)
(* The setup commands (wizard, config set, key import, key regen, link,    *)
(* clone) and status.  Each takes the machine m: the configuration file    *)
(* (cfg, hasConfig, url), the key file and the world w, and gives the      *)
(* machine after it with a report r.                                       *)
(***************************************************************************)
\* config.Default
DefaultConfig == Policy(FALSE, FALSE, FALSE, DefaultExclude)

\* Config.Validate that checks the repository URL only
ValidateUrlOnly(c, u) == u # ""

\* Config.Validate
Validate(c, u) ==
  /\ u # ""
  /\ c.includeAuth => c.encEnabled
  /\ c.includeMcpAuth => c.encEnabled

\* the private key GenerateKey returns on this machine: no other machine
\* has it (the artifacts of the remotes are encrypted to "k1")
GeneratedKey == "k2"

\* runSetupWizard: ui.SetupWizard's answers, then generateAndSaveKeys when
\* encryption is enabled, then config.Save
runSetupWizard(m, repoURL, enableEncryption, includeAuth) ==
  [m |-> [m EXCEPT !.cfg = Policy(enableEncryption, enableEncryption /\ includeAuth,
                                  FALSE, DefaultExclude),
                   !.hasConfig = TRUE,
                   !.url = repoURL,
                   !.keyFile = IF enableEncryption THEN GeneratedKey ELSE m.keyFile],
   r |-> NoReport]

\* the keys and values of 'config set' in the model
ConfigKeys ==
  {"repo.url", "encryption.enabled", "sync.includeAuth", "sync.includeMcpAuth",
   "sync.exclude"}
ConfigValues(key) ==
  IF key = "repo.url" THEN {"u1", ""}
  ELSE IF key = "sync.exclude" THEN {"auth"}
  ELSE {"true", "false"}

\* runConfigSet's switch: the configuration and URL with key set to value
setKey(c, u, key, value) ==
  CASE key = "repo.url" -> [cfg |-> c, url |-> value]
    [] key = "encryption.enabled" ->
         [cfg |-> [c EXCEPT !.encEnabled = (value = "true")], url |-> u]
    [] key = "sync.includeAuth" ->
         [cfg |-> [c EXCEPT !.includeAuth = (value = "true")], url |-> u]
    [] key = "sync.includeMcpAuth" ->
         [cfg |-> [c EXCEPT !.includeMcpAuth = (value = "true")], url |-> u]
    [] OTHER -> [cfg |-> c, url |-> u]

\* runConfigSet
runConfigSet(m, key, value) ==
  LET r0 == [NoReport EXCEPT !.calls = <<key>>]
      new == setKey(m.cfg, m.url, key, value)
  IN IF ~m.hasConfig THEN [m |-> m, r |-> [r0 EXCEPT !.err = "noConfig"]]
     ELSE IF key \notin {"repo.url", "encryption.enabled", "sync.includeAuth",
                         "sync.includeMcpAuth"}
       THEN [m |-> m, r |-> [r0 EXCEPT !.err = "unknownKey"]]
     ELSE IF ~Validate(new.cfg, new.url)
       THEN [m |-> m, r |-> [r0 EXCEPT !.err = "invalid"]]
     ELSE [m |-> [m EXCEPT !.cfg = new.cfg, !.url = new.url], r |-> r0]

\* runKeyImport; key "bad" is a string NewAgeEncryption rejects
runKeyImport(m, key, confirmed) ==
  IF key = "bad" THEN [m |-> m, r |-> [NoReport EXCEPT !.err = "invalidKey"]]
  ELSE IF m.keyFile # NoKey /\ ~confirmed THEN [m |-> m, r |-> NoReport]
  ELSE [m |-> [m EXCEPT !.keyFile = key,
                        !.cfg = IF m.hasConfig
                                  THEN [m.cfg EXCEPT !.encEnabled = TRUE]
                                  ELSE m.cfg],
        r |-> NoReport]

\* runKeyRegen
runKeyRegen(m, confirmed) ==
  IF ~confirmed THEN [m |-> m, r |-> NoReport]
  ELSE [m |-> [m EXCEPT !.keyFile = GeneratedKey,
                        !.cfg = IF m.hasConfig
                                  THEN [m.cfg EXCEPT !.encEnabled = TRUE]
                                  ELSE m.cfg],
        r |-> NoReport]

\* the git failures link and clone can meet
LinkFaults == {"none", "commit", "push"}
CloneFaults == {"none", "clone"}

\* BuiltinGit.ForcePush: the remote branch becomes HEAD
ForcePush(w) == [w EXCEPT !.remote = w.head, !.ahead = FALSE, !.behind = FALSE]

\* runLink
runLink(m, repoURL, fault, confirmed, nonceA, nonceM) ==
  LET w0 == PlainInit(m.w)
      m0 == [m EXCEPT !.w = w0, !.url = repoURL]
      c == CopyToRepo(m.cfg, Encryption(m.cfg, m.keyFile), nonceA, nonceM,
                      w0.live, w0.mirror)
      w1 == [w0 EXCEPT !.mirror = c.mirror]
      r0 == [NoReport EXCEPT !.calls = <<"Init", "AddRemote">>]
      r1 == [r0 EXCEPT !.calls = r0.calls \o <<"CopyToRepo">>,
                       !.copyTo = IF c.err = "nil" THEN "ok" ELSE "err"]
      r2 == [r1 EXCEPT !.calls = r1.calls \o <<"AddAll", "Commit">>]
      r3 == [r2 EXCEPT !.calls = r2.calls \o <<"ForcePush">>]
  IN IF ~m.hasConfig THEN [m |-> m, r |-> [NoReport EXCEPT !.err = "noConfig"]]
     ELSE IF m.w.repoReady THEN [m |-> m, r |-> [NoReport EXCEPT !.err = "exists"]]
     ELSE IF m.cfg.encEnabled /\ m.keyFile = NoKey
       THEN [m |-> m0, r |-> [r0 EXCEPT !.err = "keyNotFound"]]
     ELSE IF c.err # "nil"
       THEN [m |-> [m0 EXCEPT !.w = w1], r |-> [r1 EXCEPT !.err = "copy"]]
     ELSE IF fault = "commit"
       THEN [m |-> [m0 EXCEPT !.w = w1], r |-> [r2 EXCEPT !.err = "commit"]]
     ELSE IF ~confirmed THEN [m |-> [m0 EXCEPT !.w = Commit(w1)], r |-> r2]
     ELSE IF fault = "push"
       THEN [m |-> [m0 EXCEPT !.w = Commit(w1)], r |-> [r3 EXCEPT !.err = "push"]]
     ELSE [m |-> [m0 EXCEPT !.w = ForcePush(Commit(w1))], r |-> r3]

\* BuiltinGit.Clone: the mirror becomes a repository whose HEAD and working
\* tree are the remote branch
Clone(w) ==
  [w EXCEPT !.mirror = Checkout(PlainInit(w).mirror, w.remote), !.head = w.remote,
            !.ahead = FALSE, !.behind = FALSE, !.repoReady = TRUE]

\* the encryption runClone sets on the Syncer: a missing key file is a
\* warning only
cloneEncryption(c, keyFile) == IF c.encEnabled THEN keyFile ELSE NoKey

\* runClone; repoURL "" is the command without an argument
runClone(m, repoURL, fault) ==
  LET u == IF repoURL # "" THEN repoURL
           ELSE IF m.hasConfig THEN m.url ELSE ""
      w1 == Clone(m.w)
      m1 == IF m.hasConfig THEN [m EXCEPT !.w = w1]
            ELSE [m EXCEPT !.w = w1, !.cfg = DefaultConfig, !.url = u,
                           !.hasConfig = TRUE]
      i == CopyFromRepo(m1.cfg, cloneEncryption(m1.cfg, m1.keyFile),
                        w1.live, w1.mirror)
      r1 == [NoReport EXCEPT !.calls = <<"Clone">>]
      r2 == [r1 EXCEPT !.calls = r1.calls \o <<"CopyFromRepo">>,
                       !.copyFrom = IF i.err = "nil" THEN "ok" ELSE "err"]
  IN IF u = "" THEN [m |-> m, r |-> [NoReport EXCEPT !.err = "noURL"]]
     ELSE IF m.w.repoReady THEN [m |-> m, r |-> [NoReport EXCEPT !.err = "exists"]]
     ELSE IF fault = "clone" \/ m.w.remote = EmptyMirror
       THEN [m |-> m, r |-> [r1 EXCEPT !.err = "clone"]]
     ELSE IF i.err # "nil"
       THEN [m |-> [m1 EXCEPT !.w.live = i.live], r |-> [r2 EXCEPT !.err = "copy"]]
     ELSE [m |-> [m1 EXCEPT !.w.live = i.live], r |-> r2]

\* the queries of GetState that can fail
StateFaults == {"none", "isClean", "hasChanges", "walk"}

\* a nil *SyncState: the SyncState a call returns is the set of the one
\* value it points to
NoState == {}

\* getSyncableFiles: path and content hash of every file under the
\* syncable paths that no exclusion pattern matches
getSyncableFiles(c, live) ==
  {<<n, live[<<"cfg", n>>].body>> :
     n \in {x \in CatalogFiles : Exists(live[<<"cfg", x>>]) /\ ~shouldExclude(c.exclude, x)}}

\* GetState that returns the SyncState it has filled so far with the error
GetStatePartial(c, w, fault) ==
  LET s0 == [isClean |-> FALSE, hasLocalChanges |-> FALSE, localFiles |-> {}]
      s1 == [s0 EXCEPT !.isClean = IsClean(w.mirror, w.head)]
      s2 == [s1 EXCEPT !.hasLocalChanges = HasChanges(w.mirror, w.head)]
      s3 == [s2 EXCEPT !.localFiles = getSyncableFiles(c, w.live)]
  IN IF fault = "isClean" THEN [state |-> {s0}, err |-> "status"]
     ELSE IF fault = "hasChanges" THEN [state |-> {s1}, err |-> "changes"]
     ELSE IF fault = "walk" THEN [state |-> {s2}, err |-> "files"]
     ELSE [state |-> {s3}, err |-> "nil"]

\* Syncer.GetState
GetState(c, w, fault) ==
  LET s0 == [isClean |-> FALSE, hasLocalChanges |-> FALSE, localFiles |-> {}]
      s1 == [s0 EXCEPT !.isClean = IsClean(w.mirror, w.head)]
      s2 == [s1 EXCEPT !.hasLocalChanges = HasChanges(w.mirror, w.head)]
      s3 == [s2 EXCEPT !.localFiles = getSyncableFiles(c, w.live)]
  IN IF fault = "isClean" THEN [state |-> NoState, err |-> "status"]
     ELSE IF fault = "hasChanges" THEN [state |-> NoState, err |-> "changes"]
     ELSE IF fault = "walk" THEN [state |-> NoState, err |-> "files"]
     ELSE [state |-> {s3}, err |-> "nil"]

\* runStatus: initSyncer, then GetState
runStatus(m, fault) ==
  LET g == GetState(m.cfg, m.w, fault)
      r1 == [NoReport EXCEPT !.calls = <<"GetState">>, !.state = g.state]
  IN IF ~m.hasConfig THEN [m |-> m, r |-> [NoReport EXCEPT !.err = "noConfig"]]
     ELSE IF initSyncerFails(m.w, m.cfg, m.keyFile)
       THEN [m |-> m, r |-> [NoReport EXCEPT !.err = "initSyncer"]]
     ELSE IF g.err # "nil" THEN [m |-> m, r |-> [r1 EXCEPT !.err = g.err]]
     ELSE [m |-> m, r |-> r1]

(***************************************************************************)
(* The state.                                                              *)
(***************************************************************************)
VARIABLES
  cfg,        \* the configuration file (config.Config)
  keyFile,    \* the private key in the key file, or NoKey
  live,       \* the live tree: LivePaths -> file
  mirror,     \* the working tree of the mirror: MirrorNames -> file
  head,       \* the tree of the mirror's HEAD commit
  remote,     \* the tree of the remote branch
  ahead,      \* HEAD holds commits the remote lacks
  behind,     \* the remote holds commits HEAD lacks
  repoReady,  \* the mirror is a git repository
  last,       \* the last step: its command and what the command reported
  exported,   \* history: the live tree at the last successful CopyToRepo
  rt,         \* history: what happened since ("none", "exported", "wiped", "restored")
  env,        \* the environment steps taken
  edits,      \* the times the configuration file was rewritten
  hasConfig,  \* the configuration file exists
  url         \* Repo.URL of the configuration file ("" when not set)

vars ==
  <<cfg, keyFile, live, mirror, head, remote, ahead, behind, repoReady,
    last, exported, rt, env, edits, hasConfig, url>>

World ==
  [live |-> live, mirror |-> mirror, head |-> head, remote |-> remote,
   ahead |-> ahead, behind |-> behind, repoReady |-> repoReady]

Report(cmd, r) ==
  [cmd |-> cmd, err |-> r.err, calls |-> r.calls, copyTo |-> r.copyTo,
   copyFrom |-> r.copyFrom, pull |-> r.pull, conflictFiles |-> r.conflictFiles,
   errFiles |-> r.errFiles, errCount |-> r.errCount, state |-> r.state]

\* the files a user of the model writes to a place of the live tree
UserFiles(p) ==
  CASE p = <<"cfg", "opencode.json">> ->
         {PlainFile("v1", "0644"), PlainFile("v2", "0644"), PlainFile("v1", "0755"), NoFile}
    [] p = <<"cfg", "agent/b.log">> -> {PlainFile("v1", "0644"), NoFile}
    [] p = <<"cfg", "plugin/.git/x">> -> {PlainFile("v1", "0644"), NoFile}
    [] p = OpenCodeAuthFile -> {PlainFile("s1", "0600"), PlainFile("s2", "0600"), NoFile}
    [] p = OpenCodeMcpAuthFile -> {PlainFile("s1", "0600"), NoFile}
    [] OTHER -> {}

\* the files another machine of the model pushes to a path of the remote
RemoteFiles(n) ==
  CASE n = "opencode.json" -> {PlainFile("v2", "0644"), NoFile}
    [] n = "agent/b.log" -> {PlainFile("v2", "0644")}
    [] n = "auth.json.age" ->
         {AgeFile("k1", "r1", "s2", "0644"), AgeFile("k2", "r1", "s1", "0644")}
    [] n = "mcp-auth.json.age" -> {AgeFile("k1", "r1", "s2", "0644")}
    [] OTHER -> {}

\* the live tree of a machine on which OpenCode is configured and logged in
InitLive ==
  [p \in LivePaths |->
     CASE p = <<"cfg", "opencode.json">> -> PlainFile("v1", "0600")
       [] p = <<"cfg", "agent/b.log">> -> PlainFile("v1", "0644")
       [] p = <<"cfg", "plugin/.git/x">> -> PlainFile("v1", "0644")
       [] p = OpenCodeAuthFile -> PlainFile("s1", "0600")
       [] p = OpenCodeMcpAuthFile -> PlainFile("s1", "0600")
       [] OTHER -> NoFile]

\* after the setup wizard (encryption enabled, no credentials synced,
\* config.Default's exclusion list), before init
Init ==
  /\ cfg = Policy(TRUE, FALSE, FALSE, DefaultExclude)
  /\ keyFile = "k1"
  /\ live = [InitLive EXCEPT ![KeyFile] = SaveKeyToFile("k1")]
  /\ mirror = EmptyMirror
  /\ head = EmptyMirror
  /\ remote = EmptyMirror
  /\ ahead = FALSE
  /\ behind = FALSE
  /\ repoReady = FALSE
  /\ last = Report("setup", NoReport)
  /\ exported = EmptyLive
  /\ rt = "none"
  /\ env = 0
  /\ edits = 0
  /\ hasConfig = TRUE
  /\ url = "u1"

\* the history after a command that gave res
rtAfter(res) ==
  IF res.r.copyTo = "ok" THEN "exported"
  ELSE IF res.w.mirror # mirror THEN "none"
  ELSE IF res.r.copyFrom = "ok" /\ rt = "wiped" THEN "restored"
  ELSE IF res.w.live # live THEN "none"
  ELSE rt

\* a command that gave res takes effect
Apply(cmd, res) ==
  /\ live' = res.w.live
  /\ mirror' = res.w.mirror
  /\ head' = res.w.head
  /\ remote' = res.w.remote
  /\ ahead' = res.w.ahead
  /\ behind' = res.w.behind
  /\ repoReady' = res.w.repoReady
  /\ last' = Report(cmd, res.r)
  /\ rt' = rtAfter(res)
  /\ exported' = IF res.r.copyTo = "ok" THEN res.w.live
                 ELSE IF rtAfter(res) = "none" THEN EmptyLive
                 ELSE exported
  /\ UNCHANGED <<cfg, keyFile, env, edits, hasConfig, url>>

\* the randomness an export of category cat can draw: one value is enough
\* when the configuration never lets the category be encrypted
Draws(cat) ==
  IF Include(cfg, cat) /\ Encryption(cfg, keyFile) # NoKey
    THEN Nonces ELSE {"r1"}

RunInit ==
  \E fault \in {"none", "stage", "commit"} :
    \E nonceA \in Draws("auth"), nonceM \in Draws("mcp") :
      Apply("init", runInit(World, cfg, keyFile, fault, nonceA, nonceM))

RunPush ==
  \E fault \in PushFaults :
    \E nonceA \in Draws("auth"), nonceM \in Draws("mcp") :
      Apply("push", runPush(World, cfg, keyFile, fault, nonceA, nonceM))

RunPull ==
  \E fault \in PullFaults :
    Apply("pull", runPull(World, cfg, keyFile, fault))

\* a fault of the push phase is met only when the pull phase met none
RunSync ==
  \E faults \in ({"none"} \X PushFaults) \cup (PullFaults \X {"none"}) :
    \E nonceA \in Draws("auth"), nonceM \in Draws("mcp") :
      Apply("sync", runSync(World, cfg, keyFile, faults[1], faults[2], nonceA, nonceM))

\* the user writes or removes a file of the live tree
UserEdit ==
  /\ env < MaxEnv
  /\ \E p \in LivePaths : \E f \in UserFiles(p) :
       /\ f # live[p]
       /\ live' = [live EXCEPT ![p] = f]
  /\ last' = Report("edit", NoReport)
  /\ rt' = "none"
  /\ exported' = EmptyLive
  /\ env' = env + 1
  /\ UNCHANGED <<cfg, keyFile, mirror, head, remote, ahead, behind, repoReady, edits, hasConfig, url>>

\* the live tree is emptied (OpenCode reinstalled); the key file stays
WipeLive ==
  /\ env < MaxEnv
  /\ live # [EmptyLive EXCEPT ![KeyFile] = live[KeyFile]]
  /\ live' = [EmptyLive EXCEPT ![KeyFile] = live[KeyFile]]
  /\ last' = Report("wipe", NoReport)
  /\ rt' = IF rt \in {"exported", "wiped", "restored"} THEN "wiped" ELSE "none"
  /\ exported' = exported
  /\ env' = env + 1
  /\ UNCHANGED <<cfg, keyFile, mirror, head, remote, ahead, behind, repoReady, edits, hasConfig, url>>

\* another machine pushes a commit that changes one file
RemoteAdvance ==
  /\ env < MaxEnv
  /\ \E n \in MirrorNames : \E f \in RemoteFiles(n) :
       /\ f # remote[n]
       /\ remote' = [remote EXCEPT ![n] = f]
  /\ behind' = TRUE
  /\ last' = Report("remote", NoReport)
  /\ env' = env + 1
  /\ UNCHANGED <<cfg, keyFile, live, mirror, head, ahead, repoReady, exported, rt, edits, hasConfig, url>>

\* runConfigEdit: the user rewrites the configuration file in an editor
ConfigEdit ==
  /\ edits < MaxEdits
  /\ \E c \in Configs :
       /\ c # cfg
       /\ cfg' = c
  /\ last' = Report("config", NoReport)
  /\ rt' = "none"
  /\ exported' = EmptyLive
  /\ edits' = edits + 1
  /\ UNCHANGED <<keyFile, live, mirror, head, remote, ahead, behind, repoReady, env, hasConfig, url>>

(***************************************************************************)
(* The setup of a machine: from no configuration file, no key file and no  *)
(* mirror, through the setup wizard, config set, key import, key regen,    *)
(* link and clone, with status on the way.                                 *)
(***************************************************************************)
Machine ==
  [cfg |-> cfg, hasConfig |-> hasConfig, url |-> url, keyFile |-> keyFile,
   w |-> World]

\* the live trees a machine is set up on: a new machine, and one on which
\* OpenCode is in use and the shared skills directory holds a file
SetupLives ==
  {EmptyLive, [InitLive EXCEPT ![<<"claude", "s.md">>] = PlainFile("v1", "0644")]}

\* the remote branches a machine is set up against: an empty repository,
\* and what another machine pushed, with a credential artifact
SetupRemotes ==
  {EmptyMirror,
   [EmptyMirror EXCEPT !["opencode.json"] = PlainFile("v2", "0644"),
                       !["agent/b.log"] = PlainFile("v2", "0644"),
                       !["auth.json.age"] = AgeFile("k1", "r1", "s2", "0644"),
                       !["claude-skills/s.md"] = PlainFile("v2", "0644"),
                       !["mcp-auth.json.age"] = AgeFile("k1", "r1", "s2", "0644")]}

SetupInit ==
  /\ cfg = DefaultConfig
  /\ hasConfig = FALSE
  /\ url = ""
  /\ keyFile = NoKey
  /\ live \in SetupLives
  /\ mirror = EmptyMirror
  /\ head = EmptyMirror
  /\ remote \in SetupRemotes
  /\ ahead = FALSE
  /\ behind = FALSE
  /\ repoReady = FALSE
  /\ last = Report("setup", NoReport)
  /\ exported = EmptyLive
  /\ rt = "none"
  /\ env = 0
  /\ edits = 0

\* a setup command that gave res takes effect
SetupApply(cmd, res) ==
  /\ cfg' = res.m.cfg
  /\ hasConfig' = res.m.hasConfig
  /\ url' = res.m.url
  /\ keyFile' = res.m.keyFile
  /\ live' = [res.m.w.live EXCEPT ![KeyFile] = SaveKeyToFile(res.m.keyFile)]
  /\ mirror' = res.m.w.mirror
  /\ head' = res.m.w.head
  /\ remote' = res.m.w.remote
  /\ ahead' = res.m.w.ahead
  /\ behind' = res.m.w.behind
  /\ repoReady' = res.m.w.repoReady
  /\ last' = Report(cmd, res.r)
  /\ UNCHANGED <<exported, rt, env, edits>>

RunWizard ==
  \E repoURL \in {"", "u1"}, enableEncryption \in BOOLEAN, includeAuth \in BOOLEAN :
    SetupApply("wizard",
               runSetupWizard(Machine, repoURL, enableEncryption, includeAuth))

RunConfigSet ==
  \E key \in ConfigKeys :
    \E value \in ConfigValues(key) :
      SetupApply("configSet", runConfigSet(Machine, key, value))

RunKeyImport ==
  \E key \in Keys \cup {"bad"}, confirmed \in BOOLEAN :
    SetupApply("keyImport", runKeyImport(Machine, key, confirmed))

RunKeyRegen ==
  \E confirmed \in BOOLEAN :
    SetupApply("keyRegen", runKeyRegen(Machine, confirmed))

RunLink ==
  \E fault \in LinkFaults, confirmed \in BOOLEAN :
    \E nonceA \in Draws("auth"), nonceM \in Draws("mcp") :
      SetupApply("link", runLink(Machine, "u1", fault, confirmed, nonceA, nonceM))

RunClone ==
  \E repoURL \in {"", "u1"}, fault \in CloneFaults :
    SetupApply("clone", runClone(Machine, repoURL, fault))

RunStatus ==
  \E fault \in StateFaults :
    SetupApply("status", runStatus(Machine, fault))

\* the exclusion lists a user of the model writes during setup
SetupExcludes == {DefaultExclude, <<"auth">>}

\* the user rewrites the exclusion list of the configuration file
ExcludeEdit ==
  /\ hasConfig
  /\ edits < MaxEdits
  /\ \E e \in SetupExcludes :
       /\ e # cfg.exclude
       /\ cfg' = [cfg EXCEPT !.exclude = e]
  /\ last' = Report("config", NoReport)
  /\ edits' = edits + 1
  /\ UNCHANGED <<keyFile, live, mirror, head, remote, ahead, behind, repoReady,
                 exported, rt, env, hasConfig, url>>

(***************************************************************************)
(* The Syncer on its own: CopyToRepo, CopyFromRepo and shouldExclude       *)
(* applied to a live tree and a mirror, with files that cannot be read,    *)
(* files that are removed and a policy that is rewritten in between.       *)
(***************************************************************************)
\* the policies the Syncer is made with
EngineConfigs ==
  {Policy(TRUE, FALSE, FALSE, DefaultExclude),
   Policy(TRUE, TRUE, FALSE, DefaultExclude),
   Policy(TRUE, TRUE, TRUE, <<>>),
   Policy(FALSE, FALSE, FALSE, <<"log">>)}

\* the mirrors the Syncer starts on: a new repository, and the clone of
\* what another machine pushed
EngineMirrors ==
  {[EmptyMirror EXCEPT ![".git/HEAD"] = PlainFile("ref", "0644")],
   [EmptyMirror EXCEPT
      ![".git/HEAD"] = PlainFile("ref", "0644"),
      !["opencode.json"] = PlainFile("v2", "0644"),
      !["agent/b.log"] = PlainFile("v2", "0644"),
      !["auth.json.age"] = AgeFile("k1", "r1", "s2", "0644"),
      !["claude-skills/s.md"] = PlainFile("v2", "0644")]}

\* the sets of files os.Open fails on
Unreadables == {{}, {"opencode.json"}, {"agent/b.log"}}

\* the paths shouldExclude is asked about
ExcludeQueries == {"opencode.json", "agent/b.log", "login.json"}

EngineInit ==
  /\ cfg \in EngineConfigs
  /\ hasConfig = TRUE
  /\ url = "u1"
  /\ keyFile = "k1"
  /\ live = [InitLive EXCEPT ![KeyFile] = SaveKeyToFile("k1")]
  /\ mirror \in EngineMirrors
  /\ head = EmptyMirror
  /\ remote = EmptyMirror
  /\ ahead = FALSE
  /\ behind = FALSE
  /\ repoReady = TRUE
  /\ last = Report("setup", NoReport)
  /\ exported = EmptyLive
  /\ rt = "none"
  /\ env = 0
  /\ edits = 0

\* Syncer.CopyToRepo
DoCopyToRepo ==
  \E unreadable \in Unreadables :
    \E nonceA \in Draws("auth"), nonceM \in Draws("mcp") :
      LET c == CopyToRepoOn(cfg, Encryption(cfg, keyFile), nonceA, nonceM,
                            live, mirror, unreadable)
      IN /\ mirror' = c.mirror
         /\ last' = Report("export",
                           [NoReport EXCEPT !.err = c.err,
                                            !.calls = <<"CopyToRepo">>,
                                            !.copyTo = IF c.err = "nil" THEN "ok" ELSE "err",
                                            !.errFiles = unreadable])
         /\ UNCHANGED <<cfg, keyFile, live, head, remote, ahead, behind, repoReady,
                        exported, rt, env, edits, hasConfig, url>>

\* Syncer.CopyFromRepo
DoCopyFromRepo ==
  LET i == CopyFromRepo(cfg, Encryption(cfg, keyFile), live, mirror)
  IN /\ live' = i.live
     /\ last' = Report("import",
                       [NoReport EXCEPT !.err = i.err,
                                        !.calls = <<"CopyFromRepo">>,
                                        !.copyFrom = IF i.err = "nil" THEN "ok" ELSE "err"])
     /\ UNCHANGED <<cfg, keyFile, mirror, head, remote, ahead, behind, repoReady,
                    exported, rt, env, edits, hasConfig, url>>

\* Syncer.shouldExclude on one path
DoShouldExclude ==
  \E path \in ExcludeQueries :
    /\ last' = Report("exclude",
                      [NoReport EXCEPT !.calls = <<path>>,
                                       !.err = IF shouldExclude(cfg.exclude, path)
                                                 THEN "excluded" ELSE "kept"])
    /\ UNCHANGED <<cfg, keyFile, live, mirror, head, remote, ahead, behind,
                   repoReady, exported, rt, env, edits, hasConfig, url>>

\* the user removes a file of the live tree
RemoveLive ==
  /\ env < MaxEnv
  /\ \E p \in LivePaths \ {KeyFile} :
       /\ Exists(live[p])
       /\ live' = [live EXCEPT ![p] = NoFile]
  /\ last' = Report("remove", NoReport)
  /\ env' = env + 1
  /\ UNCHANGED <<cfg, keyFile, mirror, head, remote, ahead, behind, repoReady,
                 exported, rt, edits, hasConfig, url>>

\* a file of the mirror's working tree is removed
RemoveMirror ==
  /\ env < MaxEnv
  /\ \E n \in MirrorNames \ RepoFiles :
       /\ Exists(mirror[n])
       /\ mirror' = [mirror EXCEPT ![n] = NoFile]
  /\ last' = Report("remove", NoReport)
  /\ env' = env + 1
  /\ UNCHANGED <<cfg, keyFile, live, head, remote, ahead, behind, repoReady,
                 exported, rt, edits, hasConfig, url>>

EngineNext ==
  \/ DoCopyToRepo
  \/ DoCopyFromRepo
  \/ DoShouldExclude
  \/ RemoveLive
  \/ RemoveMirror
  \/ ConfigEdit

EngineSpec == EngineInit /\ [][EngineNext]_vars

\* the machine in use: after the setup wizard, the commands init, link,
\* push, pull and sync, and the environment
Next ==
  \/ RunInit
  \/ RunLink
  \/ RunPush
  \/ RunPull
  \/ RunSync
  \/ UserEdit
  \/ WipeLive
  \/ RemoteAdvance
  \/ ConfigEdit

Spec == Init /\ [][Next]_vars

\* the machine being set up
SetupNext ==
  \/ RunWizard
  \/ RunConfigSet
  \/ RunKeyImport
  \/ RunKeyRegen
  \/ RunLink
  \/ RunClone
  \/ RunStatus
  \/ ExcludeEdit

SetupSpec == SetupInit /\ [][SetupNext]_vars

(***************************************************************************)
(* Properties of the export (CopyToRepo), checked on the steps of the      *)
(* commands that run it on the current state (push, init), and of the      *)
(* import (CopyFromRepo), checked on the steps of pull.                    *)
(***************************************************************************)
ExportRan == last'.cmd \in {"push", "init"} /\ last'.copyTo # "-"
ImportRan == last'.cmd = "pull" /\ last'.copyFrom # "-"

\* C1: an export with a sensitive category enabled and no encryption
\* provider set returns an error, leaves the category's artifact as it was
\* and writes the bytes of the category's plaintext to no file of the mirror.
ExportWithoutProviderFails ==
  [][\A cat \in Categories :
       (ExportRan /\ Include(cfg, cat) /\ Encryption(cfg, keyFile) = NoKey)
         => /\ last'.copyTo = "err"
            /\ last'.err # "nil"
            /\ mirror'[Artifact(cat)] = mirror[Artifact(cat)]
            /\ \A n \in MirrorNames :
                 (Exists(live[Plaintext(cat)])
                    /\ SameBytes(mirror'[n], live[Plaintext(cat)]))
                   => mirror'[n] = mirror[n]]_vars

\* C1's case: an export was refused for the credentials file, which exists
\* in the live tree, and the mirror holds no artifact of it
ExportRefusedForCredential ==
  /\ last.cmd \in {"push", "init"}
  /\ last.copyTo = "err"
  /\ cfg.includeAuth
  /\ ~cfg.encEnabled
  /\ Exists(live[OpenCodeAuthFile])
  /\ ~Exists(mirror["auth.json.age"])

\* C2: a successful export writes no file of the mirror whose path the
\* exclusion list excludes (a glob match of the final segment or a substring).
ExportWritesNoExcludedPath ==
  [][(ExportRan /\ last'.copyTo = "ok")
       => \A n \in MirrorNames :
            mirror'[n] # mirror[n] => n \notin ExcludedFiles[cfg.exclude]]_vars

\* C3: an import writes no excluded file of the mirror to the live tree:
\* its destination keeps its file, and when the excluded file is a
\* category's artifact the category's plaintext keeps its file too.
ImportWritesNoExcludedFile ==
  [][ImportRan
       => \A n \in MirrorNames :
            (Exists(mirror'[n]) /\ n \in ExcludedFiles[cfg.exclude])
              => /\ live'[Destination(n)] = live[Destination(n)]
                 /\ \A cat \in Categories :
                      n = Artifact(cat)
                        => live'[Plaintext(cat)] = live[Plaintext(cat)]]_vars

\* C3's case: an import succeeded with an excluded file in the mirror,
\* outside .git, that differs from the file at its destination
ImportSkippedExcludedFile ==
  /\ last.cmd = "pull"
  /\ last.copyFrom = "ok"
  /\ \E n \in ExcludedFiles[cfg.exclude] \ GitDirFiles :
       /\ Exists(mirror[n])
       /\ live[Destination(n)] # mirror[n]

\* the collaborator operations that follow the pre-check of a cycle
AfterPreCheck == {"Pull", "CopyFromRepo", "CopyToRepo", "AddAll", "Commit", "Push"}

\* C4: a pull or a sync that starts on a mirror with uncommitted changes
\* fails without calling Pull, the import or any operation of the push
\* phase, and changes neither the live tree nor the repository.
DirtyMirrorStopsBeforePull ==
  [][(last'.cmd \in {"pull", "sync"} /\ HasChanges(mirror, head))
       => /\ last'.err # "nil"
          /\ \A i \in 1..Len(last'.calls) : last'.calls[i] \notin AfterPreCheck
          /\ live' = live
          /\ mirror' = mirror
          /\ head' = head
          /\ remote' = remote]_vars

\* C4's case: a sync was refused for the uncommitted changes of the mirror
SyncRefusedOnDirtyMirror ==
  /\ last.cmd = "sync"
  /\ last.err = "localChanges"
  /\ HasChanges(mirror, head)

\* C5: a sync whose Pull returns a ConflictError fails, and calls none of
\* CopyFromRepo, CopyToRepo, AddAll, Commit and Push after it: Pull is its
\* last call, and the live tree and the repository stay as they were.
ConflictAbortsSync ==
  [][(last'.cmd = "sync" /\ last'.pull = "conflict")
       => /\ last'.err # "nil"
          /\ last'.calls[Len(last'.calls)] = "Pull"
          /\ \A i \in 1..Len(last'.calls) :
               last'.calls[i] \notin (AfterPreCheck \ {"Pull"})
          /\ live' = live
          /\ mirror' = mirror
          /\ head' = head
          /\ remote' = remote]_vars

\* C5's case: a sync met a merge conflict on at least one file
SyncMetConflict ==
  /\ last.cmd = "sync"
  /\ last.pull = "conflict"
  /\ last.conflictFiles # {}

\* C6: the failure a command returns for a merge conflict carries exactly
\* the files the merge conflicted on.
ConflictErrorListsFiles ==
  last.err = "conflict" => last.errFiles = last.conflictFiles

\* C7: an export that follows a successful export, with no change to the
\* live tree, the mirror or the policy in between, leaves every file of the
\* mirror as it was, whatever the policy.
ExportIsIdempotent ==
  [][(ExportRan /\ last'.copyTo = "ok" /\ rt = "exported")
       => mirror' = mirror]_vars

\* C8: a non-sensitive file under a catalog root whose path the policy does
\* not exclude and which lies under no directory named .git is, after an
\* export and an import into an otherwise empty live tree, at the same
\* path with the same content and the same permission bits.
PlainRoundTripUnlessSkipped ==
  rt = "restored"
    => \A n \in CatalogFiles :
         (Exists(exported[<<"cfg", n>>])
            /\ n \notin ExcludedFiles[cfg.exclude]
            /\ n \notin GitDirFiles)
           => live[<<"cfg", n>>] = exported[<<"cfg", n>>]

\* C8's case: a file that is not world-readable was exported, the live
\* tree emptied, and an import brought the file back
PlainFileRestored ==
  /\ rt = "restored"
  /\ last.copyFrom = "ok"
  /\ Exists(exported[<<"cfg", "opencode.json">>])
  /\ exported[<<"cfg", "opencode.json">>].mode = "0600"
  /\ live[<<"cfg", "opencode.json">>] = exported[<<"cfg", "opencode.json">>]

\* C8 as stated: every non-sensitive file under a catalog root is, after
\* an export and an import into an otherwise empty live tree, at the same
\* path with the same content and the same permission bits.
PlainRoundTrip ==
  rt = "restored"
    => \A n \in CatalogFiles :
         Exists(exported[<<"cfg", n>>])
           => live[<<"cfg", n>>] = exported[<<"cfg", n>>]

\* C9: with a sensitive category enabled and a provider set, the artifact
\* a successful export leaves in the mirror never has the bytes of the
\* plaintext, and when the policy does not exclude the artifact's name an
\* import into an otherwise empty live tree restores the exact plaintext.
SensitiveRoundTripUnlessExcluded ==
  \A cat \in Categories :
    /\ (last.copyTo = "ok" /\ Include(cfg, cat) /\ Exists(live[Plaintext(cat)]))
         => /\ Exists(mirror[Artifact(cat)])
            /\ ~SameBytes(mirror[Artifact(cat)], live[Plaintext(cat)])
    /\ (rt = "restored" /\ Include(cfg, cat) /\ Exists(exported[Plaintext(cat)])
          /\ Artifact(cat) \notin ExcludedFiles[cfg.exclude])
         => SameBytes(live[Plaintext(cat)], exported[Plaintext(cat)])

\* C9's case: the credentials file was exported as an artifact, the live
\* tree emptied, and an import decrypted the artifact back
CredentialRestored ==
  /\ rt = "restored"
  /\ last.copyFrom = "ok"
  /\ cfg.includeAuth
  /\ Exists(exported[OpenCodeAuthFile])
  /\ mirror["auth.json.age"].kind = "age"
  /\ SameBytes(live[OpenCodeAuthFile], exported[OpenCodeAuthFile])

\* C9 as stated: with a sensitive category enabled and a provider set, the
\* artifact never has the bytes of the plaintext and an import into an
\* otherwise empty live tree restores the exact plaintext.
SensitiveRoundTrip ==
  \A cat \in Categories :
    /\ (last.copyTo = "ok" /\ Include(cfg, cat) /\ Exists(live[Plaintext(cat)]))
         => ~SameBytes(mirror[Artifact(cat)], live[Plaintext(cat)])
    /\ (rt = "restored" /\ Include(cfg, cat) /\ Exists(exported[Plaintext(cat)]))
         => SameBytes(live[Plaintext(cat)], exported[Plaintext(cat)])

\* C10: an import under a policy that disables a sensitive category, with
\* the category's artifact in the mirror, leaves the category's plaintext
\* file in the live tree as it was.
DisabledCategoryKeepsPlaintext ==
  [][\A cat \in Categories :
       (ImportRan /\ ~Include(cfg, cat) /\ Exists(mirror'[Artifact(cat)]))
         => live'[Plaintext(cat)] = live[Plaintext(cat)]]_vars

\* C10's case: an import succeeded with credentials disabled, an artifact
\* of them in the mirror that the key file decrypts, and a credentials
\* file of other content in the live tree
ImportPassedDisabledArtifact ==
  /\ last.cmd = "pull"
  /\ last.copyFrom = "ok"
  /\ ~cfg.includeAuth
  /\ CanDecrypt(keyFile, mirror["auth.json.age"])
  /\ Exists(live[OpenCodeAuthFile])
  /\ live[OpenCodeAuthFile].body # mirror["auth.json.age"].body

\* C11: an import under a policy that disables a sensitive category, with
\* the category's artifact in the mirror, writes the artifact to the live
\* tree in no form: the category's plaintext keeps its file, and so does
\* the place of the live tree that has the artifact's name.
DisabledArtifactNotImported ==
  [][\A cat \in Categories :
       (ImportRan /\ ~Include(cfg, cat) /\ Exists(mirror'[Artifact(cat)]))
         => /\ live'[Plaintext(cat)] = live[Plaintext(cat)]
            /\ live'[Destination(Artifact(cat))] = live[Destination(Artifact(cat))]]_vars

\* the errors a cycle returns for a fault it met, or for a policy or a
\* setup it cannot run under
FaultErrors ==
  {"status", "pull", "conflict", "stage", "commit", "push", "copy", "initSyncer"}

\* C13: when an export has failed and left uncommitted changes in the
\* mirror, the next sync cycle that meets no fault succeeds and leaves in
\* the mirror the content of every file of the live tree under a catalog root.
SyncHealsFailedExport ==
  [][(last.copyTo = "err" /\ HasChanges(mirror, head)
        /\ last'.cmd = "sync" /\ last'.err \notin FaultErrors)
       => /\ last'.err = "nil"
          /\ \A n \in CatalogFiles :
               Exists(live'[<<"cfg", n>>]) => mirror'[n] = live'[<<"cfg", n>>]]_vars

\* C14: an export under a policy that enables a sensitive category with
\* no encryption writes or overwrites no file of the mirror.
InvalidPolicyExportWritesNothing ==
  [][(ExportRan /\ \E cat \in Categories :
                     Include(cfg, cat) /\ Encryption(cfg, keyFile) = NoKey)
       => \A n \in MirrorNames \ RepoFiles : mirror'[n] = mirror[n]]_vars

\* C15: whatever makes Push or Pull fail on the repository, the error is
\* an AuthError only when the credentials were refused: a failure of the
\* transport or a rejected update is an error of another kind.
AuthErrorOnlyForAuthentication ==
  repoReady
    => /\ \A fault \in PushFaults :
            Push(World, fault).kind = "AuthError"
              => Push(World, fault).cause = "auth"
       /\ \A fault \in PullFaults :
            Pull(World, fault).kind = "AuthError"
              => Pull(World, fault).cause = "auth"

\* the calls a command made after its first call of name
RECURSIVE CallsAfter(_, _)
CallsAfter(calls, name) ==
  IF calls = <<>> THEN <<>>
  ELSE IF Head(calls) = name THEN Tail(calls)
  ELSE CallsAfter(Tail(calls), name)

CloneImportRan == last'.cmd = "clone" /\ last'.copyFrom # "-"

\* C12: a clone on a machine without a key file that cloned the remote
\* succeeds: every plain configuration file of the mirror that the import
\* does not skip is in the live tree with the mirror's bytes, and the
\* credential file of an auth.json.age in the mirror is left as it was.
CloneWithoutKeySucceeds ==
  [][(CloneImportRan /\ keyFile = NoKey)
       => /\ last'.err = "nil"
          /\ \A n \in CatalogFiles :
               (Exists(mirror'[n]) /\ ~Skipped(cfg', n))
                 => SameBytes(live'[<<"cfg", n>>], mirror'[n])
          /\ Exists(mirror'["auth.json.age"])
               => live'[OpenCodeAuthFile] = live[OpenCodeAuthFile]]_vars

\* C16: a status whose GetState was called has either no error and the
\* complete SyncState (IsClean, HasLocalChanges and the inventory as the
\* repository and the live tree answer them), or an error and no SyncState.
StateAllOrNothing ==
  (last.cmd = "status" /\ last.calls = <<"GetState">>)
    => IF last.err = "nil"
         THEN last.state =
                {[isClean |-> ~HasChanges(mirror, head),
                  hasLocalChanges |-> HasChanges(mirror, head),
                  localFiles |-> getSyncableFiles(cfg, live)]}
         ELSE last.state = NoState

\* C16's case: the inventory walk failed after both checks answered, on a
\* machine whose live tree has files to list
InventoryWalkFailed ==
  /\ last.cmd = "status"
  /\ last.err = "files"
  /\ last.state = NoState
  /\ getSyncableFiles(cfg, live) # {}

PersistedConfigValid ==
  [][/\ hasConfig' => /\ cfg'.includeAuth => cfg'.encEnabled
                      /\ cfg'.includeMcpAuth => cfg'.encEnabled
     /\ (last'.cmd = "configSet" /\ last'.err # "nil")
          => (cfg' = cfg /\ url' = url /\ hasConfig' = hasConfig)]_vars

\* C19's case: with the credentials included, a config set that would
\* disable encryption was refused
ConfigSetRefused ==
  /\ last.cmd = "configSet"
  /\ last.calls = <<"encryption.enabled">>
  /\ last.err = "invalid"
  /\ url # ""
  /\ cfg.includeAuth
  /\ cfg.encEnabled

\* C20: after a link whose CopyToRepo succeeded, every file of the shared
\* skills directory is in the mirror under claude-skills, at its path
\* relative to the directory and with its bytes.
SkillsDirExported ==
  [][(last'.cmd = "link" /\ last'.copyTo = "ok")
       => \A n \in SkillsFiles :
            (Destination(n) \in LivePaths /\ Exists(live[Destination(n)]))
              => SameBytes(mirror'[n], live[Destination(n)])]_vars

\* C21: no file of the mirror, of its HEAD commit or of the remote branch
\* holds the private key of the key file, in plain or encrypted.
KeyNeverSynced ==
  \A n \in MirrorNames :
    /\ mirror[n].body \notin Keys
    /\ head[n].body \notin Keys
    /\ remote[n].body \notin Keys

\* C21's case: with the key file on disk, a sync exported and pushed the
\* credentials encrypted to that key
SyncedWithKeyOnDisk ==
  /\ last.cmd = "sync"
  /\ last.copyTo = "ok"
  /\ last.err = "nil"
  /\ live[KeyFile] = SaveKeyToFile(keyFile)
  /\ keyFile \in Keys
  /\ Exists(remote["auth.json.age"])
  /\ remote["auth.json.age"].key = keyFile

\* C22: after a clone whose import completed, every file of the mirror that
\* the import copied as a plain file is, with the mirror's bytes, at
\* ClaudeSkillsDir joined with what follows claude-skills/ when its path
\* lies under claude-skills/, and at the configuration root joined with its
\* path otherwise; and the import changed no other place of the live tree
\* than these and the plaintext files of the artifacts it decrypted.
PlainCopyDestination ==
  [][(CloneImportRan /\ last'.copyFrom = "ok")
       => LET copied == {n \in MirrorNames :
                           /\ Exists(mirror'[n])
                           /\ ~Skipped(cfg', n)
                           /\ Routed(cfg', n) = "-"}
              dest(n) == IF HasPrefix(Chars(n), Chars("claude-skills") \o <<Sep>>)
                           THEN <<"claude", SkillsRel(n)>>
                           ELSE <<"cfg", n>>
          IN /\ \A n \in copied : SameBytes(live'[dest(n)], mirror'[n])
             /\ \A p \in LivePaths :
                  live'[p] # live[p]
                    => \/ \E n \in copied : p = dest(n)
                       \/ \E cat \in Categories :
                            p = Plaintext(cat) /\ Routed(cfg', Artifact(cat)) = cat]_vars

\* C22's case: a clone copied a file under claude-skills/ to the skills
\* directory and a configuration file to the configuration root
SkillsFileRemapped ==
  /\ last.cmd = "clone"
  /\ last.copyFrom = "ok"
  /\ Exists(mirror["claude-skills/s.md"])
  /\ SameBytes(live[<<"claude", "s.md">>], mirror["claude-skills/s.md"])
  /\ ~Exists(live[<<"cfg", "claude-skills/s.md">>])
  /\ SameBytes(live[<<"cfg", "opencode.json">>], mirror["opencode.json"])

\* C23: after a pull's import no place of the live tree holds the bytes of
\* a file of the mirror's .git directory.
GitDirNeverImported ==
  [][ImportRan
       => \A n \in RepoFiles : \A p \in LivePaths :
            Exists(mirror'[n]) => ~SameBytes(live'[p], mirror'[n])]_vars

\* C23's case: an import that copied a configuration file walked a mirror
\* whose .git directory holds a file
ImportWalkedRepository ==
  /\ last.cmd = "pull"
  /\ last.copyFrom = "ok"
  /\ Exists(mirror[".git/HEAD"])
  /\ Exists(mirror["opencode.json"])
  /\ SameBytes(live[<<"cfg", "opencode.json">>], mirror["opencode.json"])
  /\ ~Exists(live[<<"cfg", ".git/HEAD">>])

\* a step of the Syncer's CopyToRepo / CopyFromRepo alone
ExportStep == last'.cmd = "export"
ImportStep == last'.cmd = "import"

\* C24: an export on a live tree with a file that cannot be read returns an
\* error; every file before the first such file in traversal order is in
\* the mirror as copied, and that file, every file after it and both
\* artifacts are in the mirror as they were.
CopyFailureStopsExport ==
  [][ExportStep
       => LET failing == {i \in 1..Len(ExportFiles) :
                            /\ ExportFiles[i] \in last'.errFiles
                            /\ Exists(live[<<"cfg", ExportFiles[i]>>])}
          IN failing # {}
               => LET first == CHOOSE i \in failing : \A j \in failing : i <= j
                  IN /\ last'.err # "nil"
                     /\ \A i \in 1..Len(ExportFiles) :
                          IF i < first
                            THEN Exists(live[<<"cfg", ExportFiles[i]>>])
                                   => mirror'[ExportFiles[i]] = live[<<"cfg", ExportFiles[i]>>]
                            ELSE mirror'[ExportFiles[i]] = mirror[ExportFiles[i]]
                     /\ \A cat \in Categories :
                          mirror'[Artifact(cat)] = mirror[Artifact(cat)]]_vars

\* C24's case: an export failed on the second file of the traversal, under
\* a policy that encrypts the credentials: the first file is copied, the
\* later file and the artifact are not
ExportStoppedMidway ==
  /\ last.cmd = "export"
  /\ last.err = "copy"
  /\ last.errFiles = {"agent/b.log"}
  /\ cfg.includeAuth /\ Encryption(cfg, keyFile) # NoKey
  /\ Exists(live[OpenCodeAuthFile])
  /\ mirror["opencode.json"] = live[<<"cfg", "opencode.json">>]
  /\ Exists(live[<<"cfg", "plugin/.git/x">>])
  /\ ~Exists(mirror["plugin/.git/x"])
  /\ ~Exists(mirror["auth.json.age"])

\* C25: shouldExclude answers true for a path exactly when some pattern of
\* the exclusion list glob-matches the path's final segment or is a
\* substring of the path; the list ["log"] excludes login.json, and the
\* empty list excludes nothing.
ExcludeIffGlobOrSubstring ==
  last.cmd = "exclude"
    => LET path == last.calls[1] IN
       /\ last.err = "excluded"
            <=> \E i \in 1..Len(cfg.exclude) :
                  \/ Match(Chars(cfg.exclude[i]), Base(Chars(path)))
                  \/ Contains(Chars(path), Chars(cfg.exclude[i]))
       /\ (cfg.exclude = <<"log">> /\ path = "login.json") => last.err = "excluded"
       /\ cfg.exclude = <<>> => last.err = "kept"

\* C25's case: the pattern log excluded login.json, which it does not
\* glob-match
SubstringExcludedLogin ==
  /\ last.cmd = "exclude"
  /\ last.calls = <<"login.json">>
  /\ cfg.exclude = <<"log">>
  /\ last.err = "excluded"
  /\ ~Match(Chars("log"), Base(Chars("login.json")))

\* C26: an export under a policy that enables a category, with an
\* encryption provider set and no plaintext file of the category in the
\* live tree, leaves the category's artifact in the mirror as it was, absent
\* or present, and returns no error unless a copy failed.
AbsentPlaintextSkipped ==
  [][ExportStep
       => \A cat \in Categories :
            (/\ Include(cfg, cat)
             /\ Encryption(cfg, keyFile) # NoKey
             /\ ~Exists(live[Plaintext(cat)]))
              => /\ mirror'[Artifact(cat)] = mirror[Artifact(cat)]
                 /\ last'.err \in {"nil", "copy"}
                 /\ last'.errFiles = {} => last'.err = "nil"]_vars

\* C26's case: an export succeeded with the credentials included, a
\* provider set and no credential file, over a mirror that holds an artifact
ExportedWithoutCredentialFile ==
  /\ last.cmd = "export"
  /\ last.err = "nil"
  /\ cfg.includeAuth
  /\ Encryption(cfg, keyFile) # NoKey
  /\ ~Exists(live[OpenCodeAuthFile])
  /\ Exists(mirror["auth.json.age"])

\* C27: a sync cycle started when the remote branch has no commit the
\* local branch lacks leaves every file of the live tree with the content
\* it had when the cycle started.
SyncKeepsLiveEdits ==
  [][(last'.cmd = "sync" /\ ~behind)
       => \A p \in LivePaths :
            Exists(live[p]) => SameBytes(live'[p], live[p])]_vars

\* C28: after a push phase whose Push failed once its Commit was made, the
\* next push or sync cycle that returns no error, started with the remote
\* branch holding nothing the local branch lacks, sends the commit: no
\* commit stays unpushed after it.
PendingCommitPushed ==
  [][(/\ last.cmd \in {"push", "sync"}
      /\ last.err = "push"
      /\ ahead
      /\ ~behind
      /\ last'.cmd \in {"push", "sync"}
      /\ last'.err = "nil")
       => ~ahead']_vars

\* C29: an export removes no file of the mirror and an import removes no
\* file of the live tree: what exists before the step exists after it,
\* whether or not its source still exists and whether or not its category
\* is still enabled.
CopiesNeverDelete ==
  [][/\ ExportStep => \A n \in MirrorNames : Exists(mirror[n]) => Exists(mirror'[n])
     /\ ImportStep => \A p \in LivePaths : Exists(live[p]) => Exists(live'[p])]_vars

\* C29's case: an export succeeded with opencode.json removed from the live
\* tree and the credentials not included, and the mirror still holds its
\* copy of opencode.json and the credential artifact
ExportKeptOrphans ==
  /\ last.cmd = "export"
  /\ last.err = "nil"
  /\ ~Exists(live[<<"cfg", "opencode.json">>])
  /\ Exists(mirror["opencode.json"])
  /\ ~cfg.includeAuth
  /\ Exists(mirror["auth.json.age"])

\* C30: IsClean and HasChanges of the built-in repository are negations of
\* each other on one working tree, and every SyncState a status reports has
\* isClean equal to the negation of hasLocalChanges.
CleanIsNotChanged ==
  /\ IsClean(mirror, head) = ~HasChanges(mirror, head)
  /\ last.cmd = "status" => \A s \in last.state : s.isClean = ~s.hasLocalChanges

\* C30's case: a status reported a SyncState of a working tree with
\* uncommitted changes
StatusOfDirtyTree ==
  /\ last.cmd = "status"
  /\ last.err = "nil"
  /\ \E s \in last.state : s.hasLocalChanges /\ ~s.isClean

====
